---------------------------- MODULE Spec2Model ----------------------------
(***************************************************************************)
(* Model of src/main.py: the Catawiki scraping pipeline.                   *)
(*                                                                         *)
(*   get_dynamic_build_id -> fetch_page (page 1, then 2..total_pages)      *)
(*   -> parse_lots_to_records -> get_market_estimate per record            *)
(*   -> DataFrame columns (fees, final price, ratio) -> to_csv -> to_json  *)
(*                                                                         *)
(* Python values are tagged records, so that None, a float and a str can   *)
(* sit in the same column: None is [t |-> "None"], a number is             *)
(* [t |-> "float", v |-> n], a string is [t |-> "str", s |-> x].           *)
(* Money is kept in hundredths of a euro (cents), which holds 9% of a      *)
(* whole-euro bid exactly.                                                 *)
(***************************************************************************)
EXTENDS Integers, Sequences, FiniteSets, TLC

VARIABLES
    pc,            \* where main() stands
    max_lots,      \* main.py:264, the configured cap
    build_id,      \* main.py:268
    total_lots,    \* main.py:276
    lots_per_page, \* main.py:281
    total_pages,   \* main.py:282
    page_num,      \* main.py:291, the loop variable of the page loop
    all_records,   \* main.py:273
    estimates,     \* main.py:304
    valuations,    \* main.py:305
    df,            \* main.py:327, the table's rows
    csv_file,      \* main.py:370
    json_file,     \* main.py:374
    calls,         \* history: every external call main() made, in order
    lot,           \* formatter specification: the raw lot given to the normalizer
    now_ms,        \* formatter specification: datetime.now, in milliseconds
    time_remaining \* formatter specification: the record's "Time Remaining"

vars == <<pc, max_lots, build_id, total_lots, lots_per_page, total_pages,
          page_num, all_records, estimates, valuations, df, csv_file,
          json_file, calls, lot, now_ms, time_remaining>>

fmtVars == <<lot, now_ms, time_remaining>>

-----------------------------------------------------------------------------
(* Bounds of the model *)

MaxLots == 2        \* max_lots ranges over 0..MaxLots
MaxPageSize == 2    \* a page of the listing API holds 0..MaxPageSize lots
MaxTotal == 3       \* the "total" a page reports ranges over 0..MaxTotal
MaxDays == 1        \* bidding ends at most MaxDays whole days (and a bit) ahead

(* Program constants *)

CATAWIKI_BROKERAGE_FEE_PERCENTAGE == 9
FIXED_DELIVERY_FEE_EUR == 40

-----------------------------------------------------------------------------
(* Python values *)

None == [t |-> "None"]
Float(n) == [t |-> "float", v |-> n]
Str(x) == [t |-> "str", s |-> x]
NotWritten == [t |-> "no file"]

IsNone(x) == x.t = "None"
IsFloat(x) == x.t = "float"
IsStr(x) == x.t = "str"

Min(a, b) == IF a <= b THEN a ELSE b

RECURSIVE GCD(_, _)
GCD(a, b) == IF b = 0 THEN a ELSE GCD(b, a % b)


\* dict.get(key): the value, or None when the key is absent
DictGet(d, k) == IF k \in DOMAIN d THEN d[k] ELSE None

\* Python truthiness of the values the pipeline tests with "if x" / "if not x"
Truthy(x) ==
    CASE x.t = "None" -> FALSE
      [] x.t = "str" -> x.s /= ""
      [] x.t = "float" -> x.v /= 0
      [] OTHER -> TRUE

-----------------------------------------------------------------------------
(* The build-ID page: get_dynamic_build_id, main.py:20-65 *)

\* What requests.get(initial_url) can bring back: a transport or HTTP error,
\* or an HTML page whose __NEXT_DATA__ script is missing, is not JSON, is
\* JSON without a buildId, has an empty buildId, or has a buildId.
BuildPages ==
    { [kind |-> "RequestException"],
      [kind |-> "html", script |-> None],
      [kind |-> "html", script |-> [t |-> "script", valid |-> FALSE]],
      [kind |-> "html", script |-> [t |-> "script", valid |-> TRUE,
                                    data |-> [page |-> Str("/en/s")]]],
      [kind |-> "html", script |-> [t |-> "script", valid |-> TRUE,
                                    data |-> [buildId |-> Str("")]]],
      [kind |-> "html", script |-> [t |-> "script", valid |-> TRUE,
                                    data |-> [buildId |-> Str("b1")]]] }

\* Variant: a resolver that falls back to a default token instead of None
get_dynamic_build_id_fallback(page) ==
    IF page.kind = "html" /\ page.script.t = "script" /\ page.script.valid
       /\ Truthy(DictGet(page.script.data, "buildId"))
    THEN DictGet(page.script.data, "buildId")
    ELSE Str("latest")

get_dynamic_build_id(page) ==
    IF page.kind = "RequestException" THEN None          \* main.py:57-59
    ELSE IF page.script.t = "None" THEN None             \* main.py:54-56
    ELSE IF ~page.script.valid THEN None                 \* main.py:60-62
    ELSE LET build_id_ == DictGet(page.script.data, "buildId")
         IN  IF Truthy(build_id_) THEN build_id_         \* main.py:48-50
             ELSE None                                   \* main.py:51-53

-----------------------------------------------------------------------------
(* The listing API: fetch_page, main.py:68-119 *)

search_keyword == Str("omega")

\* The lots a page can hold: no live block (no bid), or a live bid in EUR
\* (1000 at the odd places of a page, 250 at the even ones).
LotBodies(i) ==
    { [title |-> Str("watch")],
      [title |-> Str("watch"),
       live |-> [bid |-> [EUR |-> Float(IF i % 2 = 1 THEN 1000 ELSE 250)]]] }

\* The lots of page p: k lots, the i-th with id <<p, i>>.
PageLots(p, k) ==
    { [i \in 1..k |-> b[i] @@ [id |-> <<p, i>>]] :
        b \in { f \in [1..k -> UNION { LotBodies(j) : j \in 1..k }] :
                  \A i \in 1..k : f[i] \in LotBodies(i) } }

\* What requests.get(base_api_url) can bring back for page p.
PageResponses(p) ==
    { [kind |-> "RequestException"],
      [kind |-> "json", data |-> [notFound |-> TRUE]],
      [kind |-> "json", data |-> [pageProps |-> [categoryLots |->
                                    [lots |-> <<>>, total |-> 0]]]] }
    \cup
    { [kind |-> "json",
       data |-> [pageProps |-> [searchLots |-> [lots |-> l, total |-> n]]]] :
         l \in UNION { PageLots(p, k) : k \in 0..MaxPageSize },
         n \in 0..MaxTotal }

\* Whether data["pageProps"][key]["lots"] and ...["total"] can be read
HasLots(data, key) ==
    /\ "pageProps" \in DOMAIN data
    /\ key \in DOMAIN data.pageProps
    /\ "lots" \in DOMAIN data.pageProps[key]
    /\ "total" \in DOMAIN data.pageProps[key]

fetch_page(resp, search_query) ==
    LET key == IF Truthy(search_query) THEN "searchLots" ELSE "categoryLots"
    IN  IF resp.kind = "RequestException"
        THEN [lots |-> <<>>, total |-> 0]                 \* main.py:110-112
        ELSE IF ~HasLots(resp.data, key)
        THEN [lots |-> <<>>, total |-> 0]                 \* main.py:113-116
        ELSE [lots |-> resp.data.pageProps[key].lots,     \* main.py:102-109
              total |-> resp.data.pageProps[key].total]

\* Whether fetch_page failed on this response (an exception was caught)
FetchFailed(resp, search_query) ==
    \/ resp.kind = "RequestException"
    \/ ~HasLots(resp.data,
                IF Truthy(search_query) THEN "searchLots" ELSE "categoryLots")


-----------------------------------------------------------------------------
(* The normalizer: format_time_remaining and parse_lots_to_records,        *)
(* main.py:122-168.  Times are in milliseconds.  A formatted string is the *)
(* sequence of its space-joined parts, each a number and its unit letter.  *)

MsPerSecond == 1000
SecondsPerDay == 86400
SecondsPerHour == 3600
SecondsPerMinute == 60

Ended == [t |-> "str", s |-> "Ended"]
Joined(parts) == [t |-> "str", parts |-> parts]
Part(n, u) == [n |-> n, u |-> u]

\* Variant: the hours part only when hours > 0, also when days are shown
format_time_remaining_hours_only_if_positive(bidding_end_ms, now) ==
    LET delta == bidding_end_ms - now
        days == delta \div (SecondsPerDay * MsPerSecond)
        seconds == (delta % (SecondsPerDay * MsPerSecond)) \div MsPerSecond
        hours == seconds \div SecondsPerHour
        minutes == (seconds % SecondsPerHour) \div SecondsPerMinute
    IN  IF delta <= 0 THEN Ended
        ELSE Joined((IF days > 0 THEN <<Part(days, "d")>> ELSE <<>>)
                    \o (IF hours > 0 THEN <<Part(hours, "h")>> ELSE <<>>)
                    \o <<Part(minutes, "m")>>)

format_time_remaining(bidding_end_ms, now) ==
    LET delta == bidding_end_ms - now                          \* main.py:128
        \* timedelta keeps days, and seconds in 0..86399        main.py:131
        days == delta \div (SecondsPerDay * MsPerSecond)
        seconds == (delta % (SecondsPerDay * MsPerSecond)) \div MsPerSecond
        hours == seconds \div SecondsPerHour                   \* main.py:132
        remainder == seconds % SecondsPerHour
        minutes == remainder \div SecondsPerMinute             \* main.py:133
    IN  IF delta <= 0 THEN Ended                               \* main.py:129
        ELSE Joined((IF days > 0 THEN <<Part(days, "d")>> ELSE <<>>)
                    \o (IF hours > 0 \/ days > 0
                        THEN <<Part(hours, "h")>> ELSE <<>>)
                    \o <<Part(minutes, "m")>>)

\* lot.get("live", {}).get("bid", {}).get("EUR"), main.py:151-152
HighestBidOf(l) ==
    IF "live" \notin DOMAIN l THEN None
    ELSE IF "bid" \notin DOMAIN l.live THEN None
    ELSE DictGet(l.live.bid, "EUR")

\* live.get("biddingEndTime"), main.py:153
BiddingEndOf(l) ==
    IF "live" \notin DOMAIN l THEN None ELSE DictGet(l.live, "biddingEndTime")

\* buy_now.get("price_eur") if buy_now else None, main.py:149-150
BuyNowPriceOf(l) ==
    IF "buyNow" \notin DOMAIN l THEN None ELSE DictGet(l.buyNow, "price_eur")

\* One record of parse_lots_to_records, main.py:148-167
RecordOf(l, now) ==
    LET bidding_end == BiddingEndOf(l)
    IN  [ID |-> DictGet(l, "id"),
         Title |-> DictGet(l, "title"),
         BuyNowPrice |-> BuyNowPriceOf(l),
         HighestBid |-> HighestBidOf(l),
         TimeRemaining |-> IF Truthy(bidding_end)
                           THEN format_time_remaining(bidding_end.v, now)
                           ELSE None]

parse_lots_to_records(lots, now) ==
    [i \in 1..Len(lots) |-> RecordOf(lots[i], now)]

-----------------------------------------------------------------------------
(* The valuation call: get_market_estimate, main.py:171-243 *)

\* The number the price pattern captures, as float() reads it
ToFloat == [x \in {"500", "0"} |-> IF x = "500" THEN 500 ELSE 0]

\* The label the valuation pattern captures (it ignores case), lowercased
Lower == [x \in {"Overvalued", "undervalued", "fairly valued"} |->
            CASE x = "Overvalued" -> "overvalued"
              [] x = "undervalued" -> "undervalued"
              [] OTHER -> "fairly valued"]

\* A generated text, by the slots of the phrase the patterns look for:
\* "Estimated market price: <price> EUR. <kw> <label>."
Text(price, kw, label) == [price |-> price, kw |-> kw, label |-> label]

Texts ==
    { Text("500", "Valuation:", "Overvalued"),
      Text("0", "Valuation:", "fairly valued"),
      Text("about five hundred", "Valuation:", "undervalued"),
      Text("500", "Valuation:", "a bargain"),
      Text("500", "valuation:", "fairly valued"),
      Text("unknown", "", "") }

Candidates(text) == [candidates |-> <<[content |-> [parts |-> <<[text |-> text]>>]]>>]

\* What requests.post(GEMINI_API_URL) can bring back
Replies ==
    { [kind |-> "RequestException"],
      [kind |-> "json", result |-> [promptFeedback |-> Str("blocked")]] }
    \cup { [kind |-> "json", result |-> Candidates(x)] : x \in Texts }

\* main.py:209-210
HasContent(result) ==
    /\ "candidates" \in DOMAIN result
    /\ Len(result.candidates) > 0
    /\ "content" \in DOMAIN result.candidates[1]
    /\ "parts" \in DOMAIN result.candidates[1].content
    /\ Len(result.candidates[1].content.parts) > 0

\* re.search(r"Estimated market price:\s*(\d+(?:\.\d+)?)\s*EUR"), main.py:217-219
PriceOf(text) ==
    IF text.price \in DOMAIN ToFloat THEN Float(ToFloat[text.price]) ELSE None

\* main.py:221-224: "Valuation:" must be in the text as written, the label
\* may be in any case
ValuationOf(text) ==
    IF text.kw = "Valuation:" /\ text.label \in DOMAIN Lower
    THEN Str(Lower[text.label]) ELSE None

\* Variant: whatever was parsed is returned, without the test of main.py:226
get_market_estimate_partial(reply) ==
    IF reply.kind = "RequestException" THEN <<None, None>>
    ELSE IF ~HasContent(reply.result) THEN <<None, None>>
    ELSE LET text == reply.result.candidates[1].content.parts[1].text
         IN  <<PriceOf(text), ValuationOf(text)>>

get_market_estimate(reply) ==
    IF reply.kind = "RequestException" THEN <<None, None>>       \* main.py:235-237
    ELSE IF ~HasContent(reply.result) THEN <<None, None>>        \* main.py:231-233
    ELSE LET text == reply.result.candidates[1].content.parts[1].text
             est_price == PriceOf(text)
             valuation == ValuationOf(text)
         IN  IF IsNone(est_price) \/ IsNone(valuation)
             THEN <<Str(text), None>>                            \* main.py:226-228
             ELSE <<est_price, valuation>>                       \* main.py:230


-----------------------------------------------------------------------------
(* Fees, final price and ratio: main.py:312-315 and 330-341 *)

CentsPerEuro == 100

\* .fillna(0) / "if ... is not None else 0": the bid in euros
FillNa0(x) == IF IsNone(x) THEN 0 ELSE x.v

\* bid * 0.09, in cents: 9% of one euro is 9 cents
CatawikiFee(highest_bid) == FillNa0(highest_bid) * CATAWIKI_BROKERAGE_FEE_PERCENTAGE

DeliveryFee == FIXED_DELIVERY_FEE_EUR * CentsPerEuro

\* Variant: the delivery fee left out of the sum
FinalPrice_no_delivery(highest_bid) ==
    FillNa0(highest_bid) * CentsPerEuro + CatawikiFee(highest_bid)

\* main.py:315 and main.py:333, in cents
FinalPrice(highest_bid) ==
    FillNa0(highest_bid) * CentsPerEuro + CatawikiFee(highest_bid) + DeliveryFee

NaN == [t |-> "NaN"]

\* a / b as a fraction in lowest terms (b = 0 gives the infinity a / 0)
Frac(a, b) == LET g == GCD(a, b)
              IN  IF g = 0 THEN [t |-> "float", num |-> a, den |-> b]
                  ELSE [t |-> "float", num |-> a \div g, den |-> b \div g]

\* Variant: the mask without its "!= 0" half
valid_estimates_mask_notna_only(est) == ~IsNone(est)

\* main.py:337: .notna() & (!= 0)
valid_estimates_mask(est) == ~IsNone(est) /\ est /= Float(0)

\* main.py:336-341: NaN unless the mask holds, else final price / estimate
RatioOf(final_price, est) ==
    IF valid_estimates_mask(est)
    THEN Frac(final_price, est.v * CentsPerEuro)
    ELSE NaN

\* One row of the table, main.py:327-364
RowOf(rec, est, valuation) ==
    [ID |-> rec.ID,
     Title |-> rec.Title,
     TimeRemaining |-> rec.TimeRemaining,
     BuyNowPrice |-> rec.BuyNowPrice,
     HighestBid |-> rec.HighestBid,
     CatawikiFee |-> CatawikiFee(rec.HighestBid),
     DeliveryFee |-> DeliveryFee,
     FinalPrice |-> FinalPrice(rec.HighestBid),
     MarketPriceEstimate |-> est,
     Ratio |-> RatioOf(FinalPrice(rec.HighestBid), est),
     Valuation |-> valuation]

\* Variant: every row built from the first record
Rows_first_repeated(records, ests, vals) ==
    [i \in 1..Len(records) |-> RowOf(records[1], ests[1], vals[1])]

Rows(records, ests, vals) ==
    [i \in 1..Len(records) |-> RowOf(records[i], ests[i], vals[i])]

\* main.py:331 raises KeyError on a table made from no records (it has no
\* "Highest Bid (EUR)" column); main.py:340 raises TypeError when the
\* estimate column holds a str (float / str).
TableRaises(records, ests) ==
    \/ Len(records) = 0
    \/ \E i \in 1..Len(ests) : IsStr(ests[i])

\* Variant: no trim after the page loop
Trim_none(records, n) == records

\* main.py:301: all_records[:max_lots]
Trim(records, n) == SubSeq(records, 1, Min(n, Len(records)))

\* main.py:282
TotalPages(total, per_page) ==
    IF per_page > 0 THEN (total + per_page - 1) \div per_page ELSE 0

File(rows) == [t |-> "file", rows |-> rows]


-----------------------------------------------------------------------------
(* main(), main.py:246-375 *)

IdsOf(lots) == [i \in 1..Len(lots) |-> lots[i].id]

Init ==
    /\ pc = "start"
    /\ max_lots \in 0..MaxLots
    /\ build_id = None
    /\ total_lots = 0
    /\ lots_per_page = 0
    /\ total_pages = 0
    /\ page_num = 0
    /\ all_records = <<>>
    /\ estimates = <<>>
    /\ valuations = <<>>
    /\ df = <<>>
    /\ csv_file = NotWritten
    /\ json_file = NotWritten
    /\ calls = <<>>
    /\ lot = [title |-> Str("watch")]
    /\ now_ms = 0
    /\ time_remaining = None

\* main.py:268-271
ResolveBuildId ==
    /\ pc = "start"
    /\ \E page \in BuildPages :
         /\ build_id' = get_dynamic_build_id(page)
         /\ calls' = Append(calls, [op |-> "get_dynamic_build_id", page |-> page])
         /\ pc' = IF ~Truthy(build_id') THEN "exit_no_build_id" ELSE "first_page"
    /\ UNCHANGED <<max_lots, total_lots, lots_per_page, total_pages, page_num,
                   all_records, estimates, valuations, df, csv_file, json_file>>
    /\ UNCHANGED fmtVars

\* Variant: an empty first page is not tested for
FirstPageFatal_never(lots) == FALSE

\* The first page is fatal when it brought no lots: main.py:277
FirstPageFatal(lots) == Len(lots) = 0

\* main.py:273-288
FetchFirstPage ==
    /\ pc = "first_page"
    /\ \E resp \in PageResponses(1) :
         LET got == fetch_page(resp, search_keyword)
         IN  /\ calls' = Append(calls,
                    [op |-> "fetch_page", page |-> 1, have |-> Len(all_records),
                     failed |-> FetchFailed(resp, search_keyword),
                     ids |-> IdsOf(got.lots)])
             /\ total_lots' = got.total
             /\ IF FirstPageFatal(got.lots)
                THEN /\ pc' = "exit_no_lots"
                     /\ UNCHANGED <<lots_per_page, total_pages, page_num, all_records>>
                ELSE /\ lots_per_page' = Len(got.lots)
                     /\ total_pages' = TotalPages(got.total, Len(got.lots))
                     /\ all_records' = all_records \o parse_lots_to_records(got.lots, now_ms)
                     /\ page_num' = 2
                     /\ pc' = "paging"
    /\ UNCHANGED <<max_lots, build_id, estimates, valuations, df, csv_file, json_file>>
    /\ UNCHANGED fmtVars

\* Whether the page loop goes on to fetch page_num: main.py:291-293
LoopFetches(n, pages, have, cap) == n <= pages /\ ~(have >= cap)

\* One turn of the page loop that fetches: main.py:291-298.  An empty page
\* breaks the loop, and the trim of main.py:301 follows.
FetchNextPage ==
    /\ pc = "paging"
    /\ LoopFetches(page_num, total_pages, Len(all_records), max_lots)
    /\ \E resp \in PageResponses(page_num) :
         LET got == fetch_page(resp, search_keyword)
         IN  /\ calls' = Append(calls,
                    [op |-> "fetch_page", page |-> page_num, have |-> Len(all_records),
                     failed |-> FetchFailed(resp, search_keyword),
                     ids |-> IdsOf(got.lots)])
             /\ IF Len(got.lots) = 0
                THEN /\ all_records' = Trim(all_records, max_lots)
                     /\ pc' = "enrich"
                     /\ UNCHANGED page_num
                ELSE /\ all_records' = all_records \o parse_lots_to_records(got.lots, now_ms)
                     /\ page_num' = page_num + 1
                     /\ pc' = "paging"
    /\ UNCHANGED <<max_lots, build_id, total_lots, lots_per_page, total_pages,
                   estimates, valuations, df, csv_file, json_file>>
    /\ UNCHANGED fmtVars

\* The loop ends (range exhausted, or the break of main.py:292-293), then
\* the trim of main.py:301
EndPagination ==
    /\ pc = "paging"
    /\ ~LoopFetches(page_num, total_pages, Len(all_records), max_lots)
    /\ all_records' = Trim(all_records, max_lots)
    /\ pc' = "enrich"
    /\ UNCHANGED <<max_lots, build_id, total_lots, lots_per_page, total_pages,
                   page_num, estimates, valuations, df, csv_file, json_file, calls>>
    /\ UNCHANGED fmtVars

\* One turn of the enrichment loop: main.py:308-325
Enrich ==
    /\ pc = "enrich"
    /\ Len(estimates) < Len(all_records)
    /\ LET rec == all_records[Len(estimates) + 1]
           final_price_for_valuation == FinalPrice(rec.HighestBid)
       IN  \E reply \in Replies :
             LET got == get_market_estimate(reply)
             IN  /\ estimates' = Append(estimates, got[1])
                 /\ valuations' = Append(valuations, got[2])
                 /\ calls' = Append(calls,
                        [op |-> "get_market_estimate", id |-> rec.ID,
                         price |-> final_price_for_valuation, reply |-> reply])
    /\ UNCHANGED <<pc, max_lots, build_id, total_lots, lots_per_page, total_pages,
                   page_num, all_records, df, csv_file, json_file>>
    /\ UNCHANGED fmtVars

\* The table and its computed columns: main.py:327-367
BuildTable ==
    /\ pc = "enrich"
    /\ Len(estimates) = Len(all_records)
    /\ IF TableRaises(all_records, estimates)
       THEN /\ pc' = "crashed"
            /\ UNCHANGED df
       ELSE /\ df' = Rows(all_records, estimates, valuations)
            /\ pc' = "to_csv"
    /\ UNCHANGED <<max_lots, build_id, total_lots, lots_per_page, total_pages,
                   page_num, all_records, estimates, valuations, csv_file,
                   json_file, calls>>
    /\ UNCHANGED fmtVars

\* main.py:370
WriteCsv ==
    /\ pc = "to_csv"
    /\ csv_file' = File(df)
    /\ calls' = Append(calls, [op |-> "to_csv"])
    /\ pc' = "to_json"
    /\ UNCHANGED <<max_lots, build_id, total_lots, lots_per_page, total_pages,
                   page_num, all_records, estimates, valuations, df, json_file>>
    /\ UNCHANGED fmtVars

\* main.py:374
WriteJson ==
    /\ pc = "to_json"
    /\ json_file' = File(df)
    /\ calls' = Append(calls, [op |-> "to_json"])
    /\ pc' = "done"
    /\ UNCHANGED <<max_lots, build_id, total_lots, lots_per_page, total_pages,
                   page_num, all_records, estimates, valuations, df, csv_file>>
    /\ UNCHANGED fmtVars

Next ==
    \/ ResolveBuildId
    \/ FetchFirstPage
    \/ FetchNextPage
    \/ EndPagination
    \/ Enrich
    \/ BuildTable
    \/ WriteCsv
    \/ WriteJson

Spec == Init /\ [][Next]_vars


-----------------------------------------------------------------------------
(* The normalizer on its own: one raw lot, one reading of the clock.       *)

MsPerDay == SecondsPerDay * MsPerSecond
MsPerHour == SecondsPerHour * MsPerSecond
MsPerMinute == SecondsPerMinute * MsPerSecond

\* Bidding-end timestamps: whole days up to MaxDays plus hours, minutes,
\* seconds and milliseconds at the edges of their ranges
EndTimes ==
    { d * MsPerDay + h * MsPerHour + m * MsPerMinute + sec * MsPerSecond + ms :
        d \in 0..MaxDays, h \in {0, 1, 23}, m \in {0, 1, 59},
        sec \in {0, 59}, ms \in {0, 999} }

\* Readings of the clock: the epoch, and 1h 1m 1s 1ms after it
Nows == {0, MsPerHour + MsPerMinute + MsPerSecond + 1}

\* A lot without a live block, with a live block that has no end time, with
\* an end time of 0, or with an end time
FmtLots ==
    { [title |-> Str("watch")],
      [title |-> Str("watch"), live |-> [bid |-> [EUR |-> Float(1000)]]] }
    \cup { [title |-> Str("watch"), live |-> [biddingEndTime |-> Float(e)]] :
             e \in EndTimes }

InitFmt ==
    /\ pc = "normalize"
    /\ max_lots = MaxLots
    /\ build_id = None
    /\ total_lots = 0
    /\ lots_per_page = 0
    /\ total_pages = 0
    /\ page_num = 0
    /\ all_records = <<>>
    /\ estimates = <<>>
    /\ valuations = <<>>
    /\ df = <<>>
    /\ csv_file = NotWritten
    /\ json_file = NotWritten
    /\ calls = <<>>
    /\ lot \in FmtLots
    /\ now_ms \in Nows
    /\ time_remaining = None

\* parse_lots_to_records on the one lot: main.py:143-168
Normalize ==
    /\ pc = "normalize"
    /\ all_records' = parse_lots_to_records(<<lot>>, now_ms)
    /\ time_remaining' = all_records'[1].TimeRemaining
    /\ pc' = "normalized"
    /\ UNCHANGED <<max_lots, build_id, total_lots, lots_per_page, total_pages,
                   page_num, estimates, valuations, df, csv_file, json_file,
                   calls, lot, now_ms>>

NextFmt == Normalize

SpecFmt == InitFmt /\ [][NextFmt]_vars


-----------------------------------------------------------------------------
(* Properties *)

FetchCalls == { i \in DOMAIN calls : calls[i].op = "fetch_page" }
EstimateCalls == { i \in DOMAIN calls : calls[i].op = "get_market_estimate" }
WriteCalls == { i \in DOMAIN calls : calls[i].op \in {"to_csv", "to_json"} }

PaginationOver == pc \in {"enrich", "crashed", "to_csv", "to_json", "done"}
FirstPageKept == pc \in {"paging", "enrich", "crashed", "to_csv", "to_json", "done"}

CeilDiv(a, b) == (a \div b) + (IF a % b = 0 THEN 0 ELSE 1)

\* The rows of every table there is: the data frame and the written files
RowSeqs ==
    {df} \cup (IF csv_file = NotWritten THEN {} ELSE {csv_file.rows})
         \cup (IF json_file = NotWritten THEN {} ELSE {json_file.rows})

OutputRows == UNION { { r[i] : i \in DOMAIN r } : r \in RowSeqs }

\* C1, as stated: the records kept after pagination never exceed max_lots, no
\* page after the first is requested once the accumulated count has reached
\* max_lots, and no page number above ceil(total_lots / size of the first
\* page) is ever requested.
C1_NoPageAboveCeil ==
    /\ PaginationOver => Len(all_records) <= max_lots
    /\ \A i \in FetchCalls : calls[i].page >= 2 => calls[i].have < max_lots
    /\ FirstPageKept =>
         \A i \in FetchCalls : calls[i].page <= CeilDiv(total_lots, lots_per_page)

\* C1, amended: as above, but the bound on page numbers is for the pages
\* after the first; page 1 is requested before the total is known, also when
\* the total it reports is 0.
C1_PaginationBounded ==
    /\ PaginationOver => Len(all_records) <= max_lots
    /\ \A i \in FetchCalls : calls[i].page >= 2 => calls[i].have < max_lots
    /\ FirstPageKept =>
         \A i \in FetchCalls :
           calls[i].page >= 2 => calls[i].page <= CeilDiv(total_lots, lots_per_page)

\* C1's case: page 2 brought more lots than the cap leaves room for, and the
\* records were cut to exactly max_lots.
C1_Witness ==
    /\ pc = "enrich"
    /\ Len(all_records) = max_lots
    /\ \E i \in FetchCalls :
         calls[i].page = 2 /\ calls[i].have + Len(calls[i].ids) > max_lots

\* C2: a page without the __NEXT_DATA__ script, an unreachable page or a JSON
\* without buildId gives no token and main exits at once; every fetch_page
\* call comes after a resolution that found a buildId.
C2_FetchOnlyAfterToken ==
    /\ \A i \in FetchCalls :
         /\ i > 1
         /\ calls[1].op = "get_dynamic_build_id"
         /\ calls[1].page.kind = "html"
         /\ calls[1].page.script.t = "script"
         /\ calls[1].page.script.valid
         /\ "buildId" \in DOMAIN calls[1].page.script.data
         /\ Truthy(build_id)
    /\ Len(calls) >= 1 =>
         LET page == calls[1].page
             noToken == \/ page.kind = "RequestException"
                        \/ page.script = None
                        \/ (page.script.valid
                            /\ "buildId" \notin DOMAIN page.script.data)
         IN  noToken => /\ build_id = None
                        /\ pc = "exit_no_build_id"
                        /\ Len(calls) = 1

\* C2's case: the page had no embedded script and main has exited.
C2_Witness ==
    /\ pc = "exit_no_build_id"
    /\ calls[1].page = [kind |-> "html", script |-> None]

\* Whether the generated text carries both the number and the label the
\* expected phrase holds
MatchesPattern(text) ==
    /\ text.price \in {"500", "0"}
    /\ text.kw = "Valuation:"
    /\ text.label \in {"Overvalued", "undervalued", "fairly valued"}

UnmatchedReply(reply) ==
    /\ reply.kind = "json"
    /\ HasContent(reply.result)
    /\ ~MatchesPattern(reply.result.candidates[1].content.parts[1].text)

\* The reply given to the k-th valuation call
ReplyOf(k) ==
    calls[CHOOSE i \in EstimateCalls :
            Cardinality({ j \in EstimateCalls : j <= i }) = k].reply

\* C3: when the generated text does not match the expected phrase, the
\* record's estimate and valuation are both absent, and the run goes on to
\* the export without crashing.
C3_UnmatchedTextLeavesBothAbsent ==
    /\ \A k \in 1..Len(estimates) :
         UnmatchedReply(ReplyOf(k)) =>
           estimates[k] = None /\ valuations[k] = None
    /\ pc /= "crashed" \/ Len(all_records) = 0

\* C4: a row's ratio is present exactly when its estimate is a number other
\* than 0, and then ratio * estimate = final price.
C4_RatioIffValidEstimate ==
    \A r \in OutputRows :
      /\ r.Ratio /= NaN <=> (IsFloat(r.MarketPriceEstimate) /\ r.MarketPriceEstimate.v /= 0)
      /\ r.Ratio /= NaN =>
           /\ r.Ratio.den /= 0
           /\ r.Ratio.num * r.MarketPriceEstimate.v * 100 = r.FinalPrice * r.Ratio.den

\* C4's case: the files hold a row with a ratio and a row whose estimate is
\* the number 0 and whose ratio is absent.
C4_Witness ==
    /\ pc = "done"
    /\ \E r \in OutputRows : r.MarketPriceEstimate = Float(500) /\ r.Ratio /= NaN
    /\ \E r \in OutputRows : r.MarketPriceEstimate = Float(0) /\ r.Ratio = NaN

\* C5: the final price (in cents) is the bid, 0 when absent, plus 9% of it
\* plus 40 EUR, in every row and in every price given to the valuation call;
\* a bid of 1000 gives fee 90 and final price 1130, no bid gives fee 0 and
\* final price 40.
C5_FinalPrice ==
    /\ \A r \in OutputRows :
         LET bid == IF r.HighestBid = None THEN 0 ELSE r.HighestBid.v
         IN  /\ r.CatawikiFee = 9 * bid
             /\ r.DeliveryFee = 4000
             /\ r.FinalPrice = 100 * bid + 9 * bid + 4000
             /\ bid = 1000 => r.CatawikiFee = 9000 /\ r.FinalPrice = 113000
             /\ r.HighestBid = None => r.CatawikiFee = 0 /\ r.FinalPrice = 4000
    /\ \A k \in 1..Len(estimates) :
         \A i \in EstimateCalls :
           calls[i].id = all_records[k].ID =>
             LET bid == IF all_records[k].HighestBid = None THEN 0
                        ELSE all_records[k].HighestBid.v
             IN  calls[i].price = 109 * bid + 4000

\* C5's case: the files hold a row with no buy-now price and a bid of 1000,
\* and a row with no bid.
C5_Witness ==
    /\ pc = "done"
    /\ \E r \in OutputRows :
         r.BuyNowPrice = None /\ r.HighestBid = Float(1000) /\ r.FinalPrice = 113000
    /\ \E r \in OutputRows : r.HighestBid = None /\ r.FinalPrice = 4000


\* The units of a formatted string, in order
UnitsOf(x) == [i \in DOMAIN x.parts |-> x.parts[i].u]

\* The number a formatted string gives for unit u (there is one such part)
NumberOf(x, u) == x.parts[CHOOSE i \in DOMAIN x.parts : x.parts[i].u = u].n

\* C6: format_time_remaining gives "Ended" when the end is at or before now;
\* otherwise the parts in descending order, "Nd" iff days > 0, "Nh" iff
\* days > 0 or hours > 0, "Nm" always, with hours in 0..23, minutes in 0..59
\* and the parts being the whole days, hours and minutes of the difference.
C6_TimeRemainingFormat ==
    (pc = "normalized" /\ Truthy(BiddingEndOf(lot))) =>
      LET delta == BiddingEndOf(lot).v - now_ms
          days == delta \div MsPerDay
          hours == (delta - days * MsPerDay) \div MsPerHour
          minutes == (delta - days * MsPerDay - hours * MsPerHour) \div MsPerMinute
          out == time_remaining
      IN  IF delta <= 0 THEN out = Ended
          ELSE /\ out /= Ended
               /\ "parts" \in DOMAIN out
               /\ UnitsOf(out) = (IF days > 0 THEN <<"d">> ELSE <<>>)
                                 \o (IF days > 0 \/ hours > 0 THEN <<"h">> ELSE <<>>)
                                 \o <<"m">>
               /\ days > 0 => NumberOf(out, "d") = days
               /\ (days > 0 \/ hours > 0) =>
                    NumberOf(out, "h") = hours /\ NumberOf(out, "h") \in 0..23
               /\ NumberOf(out, "m") = minutes /\ NumberOf(out, "m") \in 0..59

\* C6's case: a deadline exactly one day ahead reads "1d 0h 0m": the hours
\* are shown though they are zero, and the minutes always.
C6_Witness ==
    /\ pc = "normalized"
    /\ now_ms = 0
    /\ BiddingEndOf(lot) = Float(MsPerDay)
    /\ time_remaining = Joined(<<Part(1, "d"), Part(0, "h"), Part(0, "m")>>)

Exits == {"exit_no_build_id", "exit_no_lots"}

\* C7: a missing build identifier or an empty first page (transport error,
\* unexpected JSON shape or no lots) ends main at once: no valuation call is
\* made, neither file is written, and nothing more happens.
C7_FatalExits ==
    /\ (Len(calls) >= 1 /\ ~Truthy(build_id)) => pc = "exit_no_build_id"
    /\ (\E i \in FetchCalls : calls[i].page = 1 /\ calls[i].ids = <<>>) =>
         pc = "exit_no_lots"
    /\ pc \in Exits =>
         /\ EstimateCalls = {}
         /\ WriteCalls = {}
         /\ estimates = <<>>
         /\ df = <<>>
         /\ csv_file = NotWritten
         /\ json_file = NotWritten
         /\ ~ENABLED Next

\* C7's case: the first page failed and main has exited.
C7_Witness ==
    /\ pc = "exit_no_lots"
    /\ \E i \in FetchCalls : calls[i].page = 1 /\ calls[i].failed

\* The ids of the lots the successful fetches brought, in order
RECURSIVE Gathered(_)
Gathered(n) ==
    IF n = 0 THEN <<>>
    ELSE Gathered(n - 1) \o (IF calls[n].op = "fetch_page" THEN calls[n].ids ELSE <<>>)

IdsOfRows(rows) == [i \in DOMAIN rows |-> rows[i].ID]

Stopped == pc \in {"done", "crashed"} \cup Exits

\* C8: a failure of fetch_page on a page after the first is "no more data":
\* it brings no lots, no later page is requested, and the run still enriches
\* and exports exactly the records gathered before it, cut to max_lots.
C8_LaterPageFailureNotFatal ==
    \A i \in FetchCalls :
      (calls[i].page >= 2 /\ calls[i].failed) =>
        /\ calls[i].ids = <<>>
        /\ \A j \in FetchCalls : j <= i
        /\ pc \notin Exits
        /\ Stopped =>
             /\ pc = "done"
             /\ csv_file /= NotWritten /\ json_file /= NotWritten
             /\ IdsOfRows(csv_file.rows) = Trim(Gathered(Len(calls)), max_lots)
             /\ IdsOfRows(json_file.rows) = Trim(Gathered(Len(calls)), max_lots)

\* The k-th smallest element of a set of call positions
Nth(S, k) == CHOOSE i \in S : Cardinality({ j \in S : j <= i }) = k

ValuationLabels == {"overvalued", "undervalued", "fairly valued"}

\* C10: whatever the generation endpoint replies, a valuation label comes
\* only with a numeric estimate and is one of the three lowercase labels, in
\* the values get_market_estimate returns and in every output row.
C10_LabelOnlyWithEstimate ==
    /\ \A k \in 1..Len(valuations) :
         valuations[k] /= None =>
           /\ IsStr(valuations[k])
           /\ valuations[k].s \in ValuationLabels
           /\ IsFloat(estimates[k])
    /\ \A r \in OutputRows :
         r.Valuation /= None =>
           /\ IsStr(r.Valuation)
           /\ r.Valuation.s \in ValuationLabels
           /\ IsFloat(r.MarketPriceEstimate)

\* C10's case: the reply "... 500 EUR. Valuation: Overvalued" gave the pair
\* (500, "overvalued"), and another reply had its label but no number.
C10_Witness ==
    /\ \E k \in 1..Len(valuations) :
         /\ ReplyOf(k) = [kind |-> "json",
                          result |-> Candidates(Text("500", "Valuation:", "Overvalued"))]
         /\ valuations[k] = Str("overvalued")
         /\ estimates[k] = Float(500)
    /\ \E k \in 1..Len(valuations) :
         /\ ReplyOf(k) = [kind |-> "json",
                          result |-> Candidates(Text("about five hundred", "Valuation:",
                                                     "undervalued"))]
         /\ valuations[k] = None

=============================================================================
